---- MODULE Spec2Model ----
(***************************************************************************)
(* Model of the FlightOps AG-UI streaming run-event protocol.              *)
(*                                                                         *)
(*   server  src/ag_ui_server.py : FlightOpsAgent.ensure_connected,        *)
(*           agent_endpoint, generate_events, health_check                 *)
(*   client  src/frontend.py     : Chat.sendMessage (decode loop and       *)
(*           message accumulation)                                         *)
(*                                                                         *)
(* Text is a sequence of atoms, each a string: the atom " " is a space, the *)
(* atom "\n" the newline, every other atom a piece of text without         *)
(* whitespace that no chunk boundary divides.  The record prefix is spelt   *)
(* character by character.                                                 *)
(***************************************************************************)
EXTENDS Integers, Sequences, FiniteSets, TLC

\* ------------------------------------------------------------------ bounds
\* Number of records the client reads at most, over all its streams.
MaxRecords == 5

\* Number of records in a response body that is read piece by piece.
MaxWireRecords == 2

\* Number of messages the user sends in a session of several sends.
MaxSends == 2

\* ------------------------------------------------------- program constants
\* line.slice(6): the length of the record prefix 'data: '.
PrefixLen == 6

\* ------------------------------------------------------------ value sets
\* The concurrent requests to /agent.
RUNS == {"A", "B"}

\* Marker of a key that a dict does not hold (dict.get falls to its default).
Absent == "<absent>"

\* Python's None where a text is expected, and a text that was found.
None == [isNone |-> TRUE, text |-> <<>>]
Some(t) == [isNone |-> FALSE, text |-> t]

\* The outcomes of uuid.uuid4().hex[:8]: a random value, any of these.
UUIDS == {"u1", "u2"}

\* Request bodies {thread_id, run_id, messages}: both ids given or both
\* missing, the user message first or after an assistant message, and two
\* bodies without a usable user message.
Msg(role, content) == [role |-> role, content |-> content]

Body(t, r, ms) == [thread_id |-> t, run_id |-> r, messages |-> ms]

RunBodies ==
  { Body("t1", "r1", << Msg("user", <<"q1">>) >>),
    Body(Absent, Absent, << Msg("assistant", <<"x">>), Msg("user", <<"q2">>) >>),
    Body("t1", Absent, <<>>),
    Body(Absent, "r1", << Msg("user", <<>>) >>) }

\* Results the query processor returns in the run model: a dict with a flat
\* summary text of two words and one with an empty summary text.
NoKey == [has |-> FALSE]
Key(v) == [has |-> TRUE, val |-> v]
Dict(s, e) == [isdict |-> TRUE, summary |-> s, error |-> e]
Str(t) == [kind |-> "str", text |-> t]
\* A dict held under the summary key, with its nested summary key; text is
\* str() of it.
SumDict(n) == [kind |-> "dict", summary |-> n, text |-> <<"{...}">>]

\* A result that is not a dict, with str() of it; the local before it is bound.
Other(t) == [isdict |-> FALSE, text |-> t]
NoResult == [isdict |-> FALSE, text |-> <<>>, bound |-> FALSE]

RunResults ==
  { Dict(Key(Str(<<"a", " ", "b">>)), NoKey),
    Dict(Key(Str(<<>>)), NoKey) }

\* ------------------------------------------------------------- variables
VARIABLES
  \* server, src/ag_ui_server.py
  connected,       \* FlightOpsAgent.connected
  connectCalls,    \* how many times mcp_client.connect() has been started
  pc,              \* per run: position in agent_endpoint / generate_events
  body,            \* per run: the parsed request body
  user_message,    \* per run: the extracted user message
  result,          \* per run: what the query processor returned
  response_text,   \* per run: the derived response text
  message_id,      \* per run: message_id of generate_events
  words,           \* per run: words of the for loop not yet emitted
  out,             \* per run: the events yielded so far
  http,            \* per run: the HTTP response status and detail
  hpc,             \* position of the /health handler
  \* client, src/frontend.py
  messages,                 \* useState messages
  isLoading,                \* useState isLoading
  currentStreamingMessage,  \* useState currentStreamingMessage
  assistantMessage,         \* let assistantMessage
  messageId,                \* let messageId
  buffer,                   \* let buffer
  cpc,                      \* position of sendMessage
  wire,                     \* text of the response body not yet read
  received,                 \* text of the chunks read so far
  dispatched,               \* events parsed and dispatched so far
  decoderPending,           \* bytes the TextDecoder holds back
  nrecords,                 \* records read so far
  nsends,                   \* messages sent so far
  streamBase,               \* length of messages when the last send began to fetch
  cuts                      \* kinds of places where a chunk boundary fell

serverVars ==
  <<connected, connectCalls, pc, body, user_message, result, response_text,
    message_id, words, out, http, hpc>>

clientVars ==
  <<messages, isLoading, currentStreamingMessage, assistantMessage, messageId,
    buffer, cpc, wire, received, dispatched, decoderPending, nrecords, nsends,
    streamBase, cuts>>

vars == <<serverVars, clientVars>>

\* ------------------------------------------------------------ text helpers
IsSpace(c) == c = " " \/ c = "\n"

RECURSIVE Concat(_)
\* The concatenation of a sequence of texts.
Concat(ts) == IF ts = <<>> THEN <<>> ELSE Head(ts) \o Concat(Tail(ts))

RECURSIVE SplitWords(_, _)
\* str.split(): the maximal runs of non-whitespace atoms, in order.  cur is the
\* word being read.
SplitWords(t, cur) ==
  IF t = <<>> THEN (IF cur = <<>> THEN <<>> ELSE <<cur>>)
  ELSE IF IsSpace(Head(t))
       THEN (IF cur = <<>> THEN <<>> ELSE <<cur>>) \o SplitWords(Tail(t), <<>>)
       ELSE SplitWords(Tail(t), Append(cur, Head(t)))

Split(t) == SplitWords(t, <<>>)

\* dict.get(key, default) on a value that is Absent when the key is missing.
Get(v, default) == IF v = Absent THEN default ELSE v

\* ----------------------------------------------------------------- events
RunStartedEvent(t, r) == [type |-> "RUN_STARTED", threadId |-> t, runId |-> r]
RunFinishedEvent(t, r) == [type |-> "RUN_FINISHED", threadId |-> t, runId |-> r]
RunErrorEvent(m) == [type |-> "RUN_ERROR", message |-> m]
TextMessageStartEvent(m) ==
  [type |-> "TEXT_MESSAGE_START", messageId |-> m, role |-> "assistant"]
TextMessageContentEvent(m, d) ==
  [type |-> "TEXT_MESSAGE_CONTENT", messageId |-> m, delta |-> d]
TextMessageEndEvent(m) == [type |-> "TEXT_MESSAGE_END", messageId |-> m]

\* f"run-{uuid.uuid4().hex[:8]}"
RunIdOf(u) == IF u = "u1" THEN "run-u1" ELSE "run-u2"

\* f"msg-{uuid.uuid4().hex[:8]}"
MsgIdOf(u) == IF u = "u1" THEN "msg-u1" ELSE "msg-u2"

\* -------------------------------------------------- response text (server)
\* str(v) of a value the result carries.
StrOf(v) == v.text

\* json.dumps(result, indent=2) of a dict with neither summary nor error.
JsonDumps(res) == <<"{", "\n", " ", " ", "\"data\":", " ", "1", "\n", "}">>

\* ResponseText with the error looked at before the summary.
ResponseTextErrorFirst(res) ==
  IF res.isdict
  THEN IF res.error.has
       THEN <<"Error:", " ">> \o StrOf(res.error.val)
       ELSE IF res.summary.has /\ res.summary.val.kind = "dict"
            THEN (IF res.summary.val.summary.has
                  THEN StrOf(res.summary.val.summary.val)
                  ELSE <<"No", " ", "summary", " ", "available">>)
            ELSE IF res.summary.has
                 THEN StrOf(res.summary.val)
                 ELSE JsonDumps(res)
  ELSE StrOf(res)

\* generate_events, "Extract response text" and "Ensure response_text is a
\* string".
ResponseText(res) ==
  IF res.isdict
  THEN IF res.summary.has /\ res.summary.val.kind = "dict"
       THEN (IF res.summary.val.summary.has
             THEN StrOf(res.summary.val.summary.val)
             ELSE <<"No", " ", "summary", " ", "available">>)
       ELSE IF res.summary.has
            THEN StrOf(res.summary.val)
            ELSE IF res.error.has
                 THEN <<"Error:", " ">> \o StrOf(res.error.val)
                 ELSE JsonDumps(res)
  ELSE StrOf(res)

\* ------------------------------------------------------ server: the agent
\* agent_endpoint: "for msg in messages: if role == user: ...; break".
RECURSIVE ExtractUserMessage(_)
ExtractUserMessage(msgs) ==
  IF msgs = <<>> THEN None
  ELSE IF Head(msgs).role = "user" THEN Some(Head(msgs).content)
       ELSE ExtractUserMessage(Tail(msgs))

\* Falsy taking None for a message like any other.
FalsyUnlessNone(m) == ~m.isNone /\ m.text = <<>>

\* "if not user_message": None and the empty text are both falsy.
Falsy(m) == m.isNone \/ m.text = <<>>

NoResponse == [status |-> 0, detail |-> <<>>]

\* The run's events so far with one more event yielded.
Yield(r, ev) == out' = [out EXCEPT ![r] = Append(@, ev)]

\* Except with the generator going on to the end of the run after the RunError.
ExceptGoesOn(r, msg) ==
  /\ Yield(r, RunErrorEvent(msg))
  /\ pc' = [pc EXCEPT ![r] = "finish"]

\* generate_events, "except Exception as error": one RunError is yielded and
\* the generator ends.
Except(r, msg) ==
  /\ Yield(r, RunErrorEvent(msg))
  /\ pc' = [pc EXCEPT ![r] = "done"]

\* agent_endpoint up to the StreamingResponse: the request is parsed, the user
\* message extracted; without one the HTTPException(400) raised inside the try
\* is caught by "except Exception" and raised again as a 500.
AgentEndpoint(r, bodies) ==
  /\ pc[r] = "idle"
  /\ \E b \in bodies :
       LET um == ExtractUserMessage(b.messages) IN
       /\ body' = [body EXCEPT ![r] = b]
       /\ user_message' = [user_message EXCEPT ![r] = um]
       /\ IF Falsy(um)
          THEN /\ pc' = [pc EXCEPT ![r] = "rejected"]
               /\ http' = [http EXCEPT ![r] =
                    [status |-> 500,
                     detail |-> <<"400:", " ", "No", " ", "user", " ",
                                  "message", " ", "found">>]]
          ELSE /\ pc' = [pc EXCEPT ![r] = "gen_start"]
               /\ http' = [http EXCEPT ![r] = [status |-> 200, detail |-> <<>>]]
  /\ UNCHANGED <<connected, connectCalls, response_text, message_id, words,
                 out, hpc, result, clientVars>>

\* EmitRunStarted with the runs served one at a time: a run starts only when
\* no other run is under way.
EmitRunStartedOneAtATime(r) ==
  /\ pc[r] = "gen_start"
  /\ \A o \in RUNS \ {r} : pc[o] \in {"idle", "rejected", "gen_start", "done"}
  /\ \E u \in UUIDS :
       Yield(r, RunStartedEvent(Get(body[r].thread_id, "default"),
                                Get(body[r].run_id, RunIdOf(u))))
  /\ pc' = [pc EXCEPT ![r] = "ensure"]
  /\ UNCHANGED <<connected, connectCalls, body, user_message, response_text,
                 message_id, words, http, hpc, result, clientVars>>

\* generate_events: yield RunStartedEvent(thread_id, run_id), each from the
\* body or its default; the run_id default is a fresh uuid.
EmitRunStarted(r) ==
  /\ pc[r] = "gen_start"
  /\ \E u \in UUIDS :
       Yield(r, RunStartedEvent(Get(body[r].thread_id, "default"),
                                Get(body[r].run_id, RunIdOf(u))))
  /\ pc' = [pc EXCEPT ![r] = "ensure"]
  /\ UNCHANGED <<connected, connectCalls, body, user_message, response_text,
                 message_id, words, http, hpc, result, clientVars>>

\* EnsureConnected with the flag set before connect() is awaited.
EnsureConnectedFlagFirst(r) ==
  /\ pc[r] = "ensure"
  /\ IF ~connected
     THEN /\ connectCalls' = connectCalls + 1
          /\ connected' = TRUE
          /\ pc' = [pc EXCEPT ![r] = "connecting"]
     ELSE /\ connectCalls' = connectCalls
          /\ connected' = connected
          /\ pc' = [pc EXCEPT ![r] = "run_query"]
  /\ UNCHANGED <<body, user_message, response_text, message_id,
                 words, out, http, hpc, result, clientVars>>

\* process_query -> ensure_connected: "if not self.connected" and the start of
\* "await self.mcp_client.connect()".
EnsureConnected(r) ==
  /\ pc[r] = "ensure"
  /\ IF ~connected
     THEN /\ connectCalls' = connectCalls + 1
          /\ pc' = [pc EXCEPT ![r] = "connecting"]
     ELSE /\ connectCalls' = connectCalls
          /\ pc' = [pc EXCEPT ![r] = "run_query"]
  /\ UNCHANGED <<connected, body, user_message, response_text, message_id,
                 words, out, http, hpc, result, clientVars>>

\* connect() returns: "self.connected = True", then run_query is awaited.
ConnectReturns(r) ==
  /\ pc[r] = "connecting"
  /\ connected' = TRUE
  /\ pc' = [pc EXCEPT ![r] = "run_query"]
  /\ UNCHANGED <<connectCalls, body, user_message, response_text, message_id,
                 words, out, http, hpc, result, clientVars>>

\* connect() raises: the flag is left as it is, the run ends in RunError.
ConnectRaises(r) ==
  /\ pc[r] = "connecting"
  /\ Except(r, <<"connect", " ", "failed">>)
  /\ UNCHANGED <<connected, connectCalls, body, user_message, response_text,
                 message_id, words, http, hpc, result, clientVars>>

\* run_query returns a result; the response text is derived from it.
QueryReturns(r, results) ==
  /\ pc[r] = "run_query"
  /\ \E res \in results :
       /\ result' = [result EXCEPT ![r] = res]
       /\ response_text' = [response_text EXCEPT ![r] = ResponseText(res)]
  /\ pc' = [pc EXCEPT ![r] = "msg_start"]
  /\ UNCHANGED <<connected, connectCalls, body, user_message, message_id,
                 words, out, http, hpc, clientVars>>

\* run_query raises.
QueryRaises(r) ==
  /\ pc[r] = "run_query"
  /\ Except(r, <<"boom">>)
  /\ UNCHANGED <<connected, connectCalls, body, user_message, response_text,
                 message_id, words, http, hpc, result, clientVars>>

\* generate_events: a fresh message_id, yield TextMessageStartEvent; then
\* "if response_text: words = response_text.split()".
EmitTextMessageStart(r) ==
  /\ pc[r] = "msg_start"
  /\ \E u \in UUIDS :
       /\ message_id' = [message_id EXCEPT ![r] = MsgIdOf(u)]
       /\ Yield(r, TextMessageStartEvent(MsgIdOf(u)))
  /\ LET ws == IF response_text[r] # <<>> THEN Split(response_text[r]) ELSE <<>>
     IN /\ words' = [words EXCEPT ![r] = ws]
        /\ pc' = [pc EXCEPT ![r] = IF ws = <<>> THEN "msg_end" ELSE "content"]
  /\ UNCHANGED <<connected, connectCalls, body, user_message, response_text,
                 http, hpc, result, clientVars>>

\* EmitTextMessageContent with the word alone as the delta.
EmitTextMessageContentBare(r) ==
  /\ pc[r] = "content"
  /\ Yield(r, TextMessageContentEvent(message_id[r], Head(words[r])))
  /\ words' = [words EXCEPT ![r] = Tail(@)]
  /\ pc' = [pc EXCEPT ![r] = IF Tail(words[r]) = <<>> THEN "msg_end" ELSE "content"]
  /\ UNCHANGED <<connected, connectCalls, body, user_message, response_text,
                 message_id, http, hpc, result, clientVars>>

\* One turn of "for word in words": yield TextMessageContentEvent(word + " "),
\* then await asyncio.sleep(0.05).
EmitTextMessageContent(r) ==
  /\ pc[r] = "content"
  /\ Yield(r, TextMessageContentEvent(message_id[r], Append(Head(words[r]), " ")))
  /\ words' = [words EXCEPT ![r] = Tail(@)]
  /\ pc' = [pc EXCEPT ![r] = IF Tail(words[r]) = <<>> THEN "msg_end" ELSE "content"]
  /\ UNCHANGED <<connected, connectCalls, body, user_message, response_text,
                 message_id, http, hpc, result, clientVars>>

\* EmitTextMessageEnd closing a message under the id of another uuid.
EmitTextMessageEndOtherId(r) ==
  /\ pc[r] = "msg_end"
  /\ Yield(r, TextMessageEndEvent(IF message_id[r] = "msg-u1" THEN "msg-u2" ELSE "msg-u1"))
  /\ pc' = [pc EXCEPT ![r] = "finish"]
  /\ UNCHANGED <<connected, connectCalls, body, user_message, response_text,
                 message_id, words, http, hpc, result, clientVars>>

\* yield TextMessageEndEvent(message_id).
EmitTextMessageEnd(r) ==
  /\ pc[r] = "msg_end"
  /\ Yield(r, TextMessageEndEvent(message_id[r]))
  /\ pc' = [pc EXCEPT ![r] = "finish"]
  /\ UNCHANGED <<connected, connectCalls, body, user_message, response_text,
                 message_id, words, http, hpc, result, clientVars>>

\* EmitRunFinished ending the generator without the RunFinished event.
EmitRunFinishedSilent(r) ==
  /\ pc[r] = "finish"
  /\ pc' = [pc EXCEPT ![r] = "done"]
  /\ UNCHANGED <<connected, connectCalls, body, user_message, response_text,
                 message_id, words, out, http, hpc, result, clientVars>>

\* yield RunFinishedEvent(thread_id, run_id): both are read from the body
\* again, and the run_id default is again a fresh uuid.
EmitRunFinished(r) ==
  /\ pc[r] = "finish"
  /\ \E u \in UUIDS :
       Yield(r, RunFinishedEvent(Get(body[r].thread_id, "default"),
                                 Get(body[r].run_id, RunIdOf(u))))
  /\ pc' = [pc EXCEPT ![r] = "done"]
  /\ UNCHANGED <<connected, connectCalls, body, user_message, response_text,
                 message_id, words, http, hpc, result, clientVars>>

\* A step of the generator other than the awaited calls raises (building or
\* encoding an event, the pacing sleep).
StepRaises(r) ==
  /\ pc[r] \in {"gen_start", "msg_start", "content", "msg_end", "finish"}
  /\ Except(r, <<"step", " ", "failed">>)
  /\ UNCHANGED <<connected, connectCalls, body, user_message, response_text,
                 message_id, words, http, hpc, result, clientVars>>

\* /health: ensure_connected, then list_tools.
HealthCheck ==
  /\ hpc = "idle"
  /\ IF ~connected
     THEN /\ connectCalls' = connectCalls + 1
          /\ hpc' = "connecting"
     ELSE /\ connectCalls' = connectCalls
          /\ hpc' = "healthy"
  /\ UNCHANGED <<connected, pc, body, user_message, response_text, message_id,
                 words, out, http, result,
                 clientVars>>

HealthConnectReturns ==
  /\ hpc = "connecting"
  /\ connected' = TRUE
  /\ hpc' = "healthy"
  /\ UNCHANGED <<connectCalls, pc, body, user_message, response_text,
                 message_id, words, out, http, result,
                 clientVars>>

HealthConnectRaises ==
  /\ hpc = "connecting"
  /\ hpc' = "unhealthy"
  /\ UNCHANGED <<connected, connectCalls, pc, body, user_message,
                 response_text, message_id, words, out, http, result,
                 clientVars>>

\* ------------------------------------------------- client: initial values
ClientInit ==
  /\ wire = <<>>
  /\ messages = <<>>
  /\ isLoading = FALSE
  /\ currentStreamingMessage = <<>>
  /\ assistantMessage = <<>>
  /\ messageId = "null"
  /\ buffer = <<>>
  /\ cpc = "idle"
  /\ received = <<>>
  /\ dispatched = <<>>
  /\ decoderPending = <<>>
  /\ nrecords = 0
  /\ nsends = 0
  /\ streamBase = 0
  /\ cuts = {}


\* ------------------------------------------------- server: specification
\* The state after "agent = FlightOpsAgent()", before any request.
ServerInit ==
  /\ connected = FALSE
  /\ connectCalls = 0
  /\ pc = [r \in RUNS |-> "idle"]
  /\ body = [r \in RUNS |-> [thread_id |-> Absent, run_id |-> Absent,
                             messages |-> <<>>]]
  /\ user_message = [r \in RUNS |-> None]
  /\ result = [r \in RUNS |-> NoResult]
  /\ response_text = [r \in RUNS |-> <<>>]
  /\ message_id = [r \in RUNS |-> "null"]
  /\ words = [r \in RUNS |-> <<>>]
  /\ out = [r \in RUNS |-> <<>>]
  /\ http = [r \in RUNS |-> NoResponse]
  /\ hpc = "idle"

Init == ServerInit /\ ClientInit

\* The steps of one run that its own code takes once it is resumed.
RunStep(r) ==
  \/ EmitRunStarted(r)
  \/ EnsureConnected(r)
  \/ ConnectReturns(r)
  \/ ConnectRaises(r)
  \/ QueryReturns(r, RunResults)
  \/ QueryRaises(r)
  \/ EmitTextMessageStart(r)
  \/ EmitTextMessageContent(r)
  \/ EmitTextMessageEnd(r)
  \/ EmitRunFinished(r)

Next ==
  \/ \E r \in RUNS : AgentEndpoint(r, RunBodies)
  \/ \E r \in RUNS : RunStep(r)
  \/ \E r \in RUNS : StepRaises(r)
  \/ HealthCheck
  \/ HealthConnectReturns
  \/ HealthConnectRaises

Spec == Init /\ [][Next]_vars

\* The event loop resumes every run that can take a step, and every awaited
\* call of the query processor returns or raises.
FairSpec == Spec /\ \A r \in RUNS : WF_vars(RunStep(r))

\* ------------------------------------ server: ensure_connected in sequence
\* How many callers are inside ensure_connected, waiting for connect().
NumConnecting ==
  Cardinality({r \in RUNS : pc[r] = "connecting"})
  + (IF hpc = "connecting" THEN 1 ELSE 0)

\* The steps of the server when the calls of ensure_connected do not overlap:
\* a caller enters it only when no other caller is inside.
SequentialNext ==
  \/ \E r \in RUNS :
        \/ AgentEndpoint(r, RunBodies)
        \/ EmitRunStarted(r)
        \/ NumConnecting = 0 /\ EnsureConnected(r)
        \/ ConnectReturns(r)
        \/ ConnectRaises(r)
        \/ QueryReturns(r, RunResults)
        \/ QueryRaises(r)
        \/ EmitTextMessageStart(r)
        \/ EmitTextMessageContent(r)
        \/ EmitTextMessageEnd(r)
        \/ EmitRunFinished(r)
        \/ StepRaises(r)
  \/ NumConnecting = 0 /\ HealthCheck
  \/ HealthConnectReturns
  \/ HealthConnectRaises

SequentialSpec == Init /\ [][SequentialNext]_vars

\* ---------------------------------------------- server: one run, any input
\* Request bodies of one run: one user message, a history with two user
\* messages, a user message after an assistant message, no user message,
\* no messages, and user messages with empty content.
SoloBodies ==
  { Body("t1", "r1", << Msg("user", <<"q1">>) >>),
    Body("t1", Absent, << Msg("user", <<"q1">>), Msg("assistant", <<"x">>),
                          Msg("user", <<"q2">>) >>),
    Body(Absent, Absent, << Msg("assistant", <<"x">>), Msg("user", <<"q2">>) >>),
    Body("t1", "r1", << Msg("assistant", <<"x">>) >>),
    Body("t1", Absent, <<>>),
    Body(Absent, "r1", << Msg("user", <<>>) >>),
    Body("t1", "r1", << Msg("user", <<>>), Msg("user", <<"q2">>) >>) }

\* Results of the query processor: dicts with a flat, a nested, a missing
\* nested, a non-text or no summary, with and without an error, and a value
\* that is no dict.
SoloResults ==
  { Dict(Key(Str(<<"a", " ", "b">>)), NoKey),
    Dict(Key(Str(<<>>)), NoKey),
    Dict(Key(Str(<<" ", "\n">>)), NoKey),
    Dict(Key(Str(<<"s">>)), Key(Str(<<"e">>))),
    Dict(Key([kind |-> "int", text |-> <<"42">>]), NoKey),
    Dict(Key(SumDict(Key(Str(<<"n", " ", " ", "m">>)))), NoKey),
    Dict(Key(SumDict(Key(Str(<<"n">>)))), Key(Str(<<"e">>))),
    Dict(Key(SumDict(NoKey)), NoKey),
    Dict(Key(SumDict(NoKey)), Key(Str(<<"e">>))),
    Dict(NoKey, Key(Str(<<"e">>))),
    Dict(NoKey, NoKey),
    Other(<<"r">>) }

\* The steps of the run "A" served alone.
SoloNext ==
  \/ AgentEndpoint("A", SoloBodies)
  \/ EmitRunStarted("A")
  \/ EnsureConnected("A")
  \/ ConnectReturns("A")
  \/ ConnectRaises("A")
  \/ QueryReturns("A", SoloResults)
  \/ QueryRaises("A")
  \/ EmitTextMessageStart("A")
  \/ EmitTextMessageContent("A")
  \/ EmitTextMessageEnd("A")
  \/ EmitRunFinished("A")
  \/ StepRaises("A")

SoloSpec == Init /\ [][SoloNext]_vars

\* ===================================================== run event sequence
Last(s) == s[Len(s)]
Front(s) == SubSeq(s, 1, Len(s) - 1)

IsTerminal(ev) == ev.type \in {"RUN_FINISHED", "RUN_ERROR"}

HasRunError(evs) == \E i \in DOMAIN evs : evs[i].type = "RUN_ERROR"

\* The run's generator has ended without a RunError.
Succeeded(r) == pc[r] = "done" /\ ~HasRunError(out[r])

\* The run's generator has ended in a RunError that followed RunStarted.
FailedAfterStart(r) ==
  /\ pc[r] = "done"
  /\ HasRunError(out[r])
  /\ out[r][1].type = "RUN_STARTED"

\* RunStarted, TextMessageStart, TextMessageContent*, TextMessageEnd,
\* RunFinished, every content and the end under the id the start introduced.
IsSuccessSequence(evs) ==
  /\ Len(evs) >= 4
  /\ evs[1].type = "RUN_STARTED"
  /\ evs[2].type = "TEXT_MESSAGE_START"
  /\ \A i \in 3..(Len(evs) - 2) :
       /\ evs[i].type = "TEXT_MESSAGE_CONTENT"
       /\ evs[i].messageId = evs[2].messageId
  /\ evs[Len(evs) - 1].type = "TEXT_MESSAGE_END"
  /\ evs[Len(evs) - 1].messageId = evs[2].messageId
  /\ evs[Len(evs)].type = "RUN_FINISHED"

\* evs is the successful sequence of a run with response words ws, cut short
\* before its RunFinished.
IsProperPrefix(evs, ws) ==
  /\ Len(evs) <= Len(ws) + 3
  /\ \A i \in DOMAIN evs :
       /\ i = 1 => evs[i].type = "RUN_STARTED"
       /\ i = 2 => evs[i].type = "TEXT_MESSAGE_START"
       /\ (i >= 3 /\ i <= Len(ws) + 2) =>
            /\ evs[i].type = "TEXT_MESSAGE_CONTENT"
            /\ evs[i].messageId = evs[2].messageId
            /\ evs[i].delta = Append(ws[i - 2], " ")
       /\ i = Len(ws) + 3 =>
            /\ evs[i].type = "TEXT_MESSAGE_END"
            /\ evs[i].messageId = evs[2].messageId

\* C1: a run that ends without an error has emitted exactly RunStarted,
\* TextMessageStart, zero or more TextMessageContent, TextMessageEnd,
\* RunFinished, and every content event and the end event carry the messageId
\* of the start event.
C1_SuccessfulRunGrammar ==
  \A r \in RUNS : Succeeded(r) => IsSuccessSequence(out[r])

\* A successful run with two content events has ended.
C1_Witness ==
  \E r \in RUNS :
    /\ Succeeded(r)
    /\ Len(out[r]) = 6
    /\ out[r][3].type = "TEXT_MESSAGE_CONTENT"
    /\ out[r][4].type = "TEXT_MESSAGE_CONTENT"

\* C2: the RunFinished event of a successful run carries the threadId and the
\* runId of its RunStarted event, also when the request gave neither.
C2_FinishedCarriesStartedIds ==
  \A r \in RUNS :
    Succeeded(r) =>
      /\ Last(out[r]).threadId = out[r][1].threadId
      /\ Last(out[r]).runId = out[r][1].runId

\* C3: a run that fails after RunStarted has emitted a proper prefix of its
\* successful sequence and then exactly one RunError; in no state does an event
\* follow a RunError.
C3_FailedRunIsPrefixThenError ==
  \A r \in RUNS :
    /\ \A i \in DOMAIN out[r] : out[r][i].type = "RUN_ERROR" => i = Len(out[r])
    /\ FailedAfterStart(r) =>
         /\ Last(out[r]).type = "RUN_ERROR"
         /\ ~HasRunError(Front(out[r]))
         /\ IsProperPrefix(Front(out[r]), Split(response_text[r]))

\* A run has failed between its two content events.
C3_Witness ==
  \E r \in RUNS :
    /\ FailedAfterStart(r)
    /\ Len(out[r]) = 4
    /\ out[r][3].type = "TEXT_MESSAGE_CONTENT"
    /\ out[r][4].type = "RUN_ERROR"
    /\ Len(Split(response_text[r])) = 2

\* The stream of run r has been opened: agent_endpoint returned the
\* StreamingResponse.
Opened(r) == pc[r] \notin {"idle", "rejected"}

\* The run has ended with exactly one terminal event, its last.
EndedInOneTerminal(r) ==
  /\ pc[r] = "done"
  /\ out[r] # <<>>
  /\ IsTerminal(Last(out[r]))
  /\ \A i \in DOMAIN out[r] : IsTerminal(out[r][i]) => i = Len(out[r])

\* C4: every run whose stream is opened eventually ends with exactly one
\* terminal event (RunFinished or RunError), and no terminal event is ever
\* followed by another event.
C4_EveryOpenedRunTerminates ==
  /\ \A r \in RUNS : [](Opened(r) => <>EndedInOneTerminal(r))
  /\ [](\A r \in RUNS :
          \A i \in DOMAIN out[r] : IsTerminal(out[r][i]) => i = Len(out[r]))

\* Both runs have ended, one in RunFinished and one in RunError.
C4_Witness ==
  /\ \A r \in RUNS : EndedInOneTerminal(r)
  /\ \E r \in RUNS : Last(out[r]).type = "RUN_FINISHED"
  /\ \E r \in RUNS : Last(out[r]).type = "RUN_ERROR"

\* The connect() calls that have raised: each ended a run in the RunError of
\* the connection, or made /health answer unhealthy.
ConnectFailures ==
  Cardinality({r \in RUNS : /\ pc[r] = "done"
                            /\ HasRunError(out[r])
                            /\ Last(out[r]).message = <<"connect", " ", "failed">>})
  + (IF hpc = "unhealthy" THEN 1 ELSE 0)

\* C6: mcp_client.connect() is started at most once, whatever the interleaving
\* of the first calls of ensure_connected (a connect() that raised aside).
C6_ConnectStartedAtMostOnce == connectCalls - ConnectFailures <= 1

\* ========================================================= wire encoding
\* The record prefix 'data: ' and the record terminator the encoder writes.
Prefix == <<"d", "a", "t", "a", ":", " ">>
Terminator == <<"\n", "\n">>

\* The JSON text of an event: an opening brace, the type, the fields in their
\* order, a closing brace.
JsonOf(ev) ==
  CASE ev.type \in {"TEXT_MESSAGE_START", "TEXT_MESSAGE_END"} ->
         <<"{", ev.type, ev.messageId, "}">>
    [] ev.type \in {"TEXT_MESSAGE_CONTENT", "TEXT_MESSAGE_CHUNK"} ->
         <<"{", ev.type, ev.messageId>> \o ev.delta \o <<"}">>
    [] ev.type = "RUN_ERROR" -> <<"{", ev.type>> \o ev.message \o <<"}">>
    [] OTHER -> <<"{", ev.type, ev.threadId, ev.runId, "}">>

\* encoder.encode(event): one record of the text/event-stream.
EncodeEvent(ev) == Prefix \o JsonOf(ev) \o Terminator

\* JSON.parse: the text parses when it is enclosed in braces; a field the text
\* does not hold reads as undefined.
JsonParse(t) ==
  IF Len(t) < 2 \/ t[1] # "{" \/ t[Len(t)] # "}"
  THEN [ok |-> FALSE, ev |-> [type |-> "undefined"]]
  ELSE LET inner == SubSeq(t, 2, Len(t) - 1)
           fields == IF inner = <<>> THEN <<>> ELSE Tail(inner)
           type == IF inner = <<>> THEN "undefined" ELSE inner[1]
           id == IF fields = <<>> THEN "undefined" ELSE fields[1]
       IN [ok |-> TRUE,
           ev |->
             CASE type \in {"TEXT_MESSAGE_START", "TEXT_MESSAGE_END"} ->
                    [type |-> type, messageId |-> id]
               [] type \in {"TEXT_MESSAGE_CONTENT", "TEXT_MESSAGE_CHUNK"} ->
                    [type |-> type, messageId |-> id,
                     delta |-> IF fields = <<>> THEN <<"undefined">>
                               ELSE Tail(fields)]
               [] type = "RUN_ERROR" -> [type |-> type, message |-> fields]
               [] OTHER -> [type |-> type]]

\* TextDecoder.decode(value, {stream: true}): the two bytes C3 A9 are one
\* character; a first byte at the end of a chunk is held back for the next.
\* i is the next byte to read, acc the text decoded so far.
RECURSIVE DecodeBytes(_, _, _)
DecodeBytes(bs, i, acc) ==
  IF i > Len(bs) THEN [text |-> acc, pending |-> <<>>]
  ELSE IF bs[i] = "C3"
       THEN IF i = Len(bs) THEN [text |-> acc, pending |-> <<"C3">>]
            ELSE IF bs[i + 1] = "A9"
                 THEN DecodeBytes(bs, i + 2, Append(acc, "U+E9"))
                 ELSE DecodeBytes(bs, i + 1, Append(acc, "U+FFFD"))
       ELSE DecodeBytes(bs, i + 1,
                        Append(acc, IF bs[i] = "A9" THEN "U+FFFD" ELSE bs[i]))

TextDecode(pending, value) == DecodeBytes(pending \o value, 1, <<>>)

\* ================================================= client: sendMessage
\* What the user types.
Inputs == {<<"hi">>, <<" ">>}

RECURSIVE TrimLeft(_)
TrimLeft(t) == IF t # <<>> /\ IsSpace(Head(t)) THEN TrimLeft(Tail(t)) ELSE t

\* input.trim() is empty exactly when trimming the left end leaves nothing.
IsBlank(t) == TrimLeft(t) = <<>>

Message(role, content, id) == [role |-> role, content |-> content, id |-> id]

\* 'Sorry, I encountered an error. Please try again.'
FailureText ==
  <<"Sorry,", " ", "I", " ", "encountered", " ", "an", " ", "error.", " ",
    "Please", " ", "try", " ", "again.">>

\* buffer.split('\n'): the pieces between the newlines, at least one.  i is
\* the next atom to read, cur the piece being read, acc the pieces before it.
RECURSIVE SplitFrom(_, _, _, _)
SplitFrom(t, i, cur, acc) ==
  IF i > Len(t) THEN Append(acc, cur)
  ELSE IF t[i] = "\n" THEN SplitFrom(t, i + 1, <<>>, Append(acc, cur))
       ELSE SplitFrom(t, i + 1, Append(cur, t[i]), acc)

SplitLines(t) == SplitFrom(t, 1, <<>>, <<>>)

\* line.startsWith('data: ')
StartsWithPrefix(line) ==
  Len(line) >= PrefixLen /\ SubSeq(line, 1, PrefixLen) = Prefix

\* The state the decode loop works on.
StreamState(am, mid, ms, csm, ds) ==
  [assistantMessage |-> am, messageId |-> mid, messages |-> ms,
   currentStreamingMessage |-> csm, dispatched |-> ds]

\* Dispatch with a delta put in front of the accumulated text.
DispatchPrepends(st, ev) ==
  LET st1 == [st EXCEPT !.dispatched = Append(@, ev)] IN
  CASE ev.type = "TEXT_MESSAGE_START" ->
         [st1 EXCEPT !.messageId = ev.messageId]
    [] ev.type \in {"TEXT_MESSAGE_CONTENT", "TEXT_MESSAGE_CHUNK"} ->
         [st1 EXCEPT !.assistantMessage = ev.delta \o @,
                     !.currentStreamingMessage = ev.delta \o st.assistantMessage]
    [] ev.type = "TEXT_MESSAGE_END" ->
         [st1 EXCEPT !.messages =
                       Append(@, Message("assistant", st.assistantMessage,
                                         IF st.messageId \in {"null", "undefined"}
                                         THEN "now" ELSE st.messageId)),
                     !.currentStreamingMessage = <<>>]
    [] ev.type = "RUN_ERROR" ->
         [st1 EXCEPT !.messages =
                       Append(@, Message("assistant",
                                         <<"Error:", " ">> \o ev.message, "now"))]
    [] OTHER -> st1

\* The dispatch on eventData.type, for one parsed event.
Dispatch(st, ev) ==
  LET st1 == [st EXCEPT !.dispatched = Append(@, ev)] IN
  CASE ev.type = "TEXT_MESSAGE_START" ->
         [st1 EXCEPT !.messageId = ev.messageId]
    [] ev.type \in {"TEXT_MESSAGE_CONTENT", "TEXT_MESSAGE_CHUNK"} ->
         [st1 EXCEPT !.assistantMessage = @ \o ev.delta,
                     !.currentStreamingMessage = st.assistantMessage \o ev.delta]
    [] ev.type = "TEXT_MESSAGE_END" ->
         [st1 EXCEPT !.messages =
                       Append(@, Message("assistant", st.assistantMessage,
                                         IF st.messageId \in {"null", "undefined"}
                                         THEN "now" ELSE st.messageId)),
                     !.currentStreamingMessage = <<>>]
    [] ev.type = "RUN_ERROR" ->
         [st1 EXCEPT !.messages =
                       Append(@, Message("assistant",
                                         <<"Error:", " ">> \o ev.message, "now"))]
    [] OTHER -> st1

\* HandleLine with a failed parse reaching the outer catch: the failure
\* message is appended.
HandleLineFailsLoud(st, line) ==
  IF StartsWithPrefix(line)
  THEN LET parsed == JsonParse(SubSeq(line, PrefixLen + 1, Len(line)))
       IN IF parsed.ok THEN Dispatch(st, parsed.ev)
          ELSE [st EXCEPT !.messages =
                  Append(@, Message("assistant", FailureText, "now"))]
  ELSE st

\* The body of "for (const line of lines)" for one line.
HandleLine(st, line) ==
  IF StartsWithPrefix(line)
  THEN LET parsed == JsonParse(SubSeq(line, PrefixLen + 1, Len(line)))
       IN IF parsed.ok THEN Dispatch(st, parsed.ev) ELSE st
  ELSE st

RECURSIVE HandleLines(_, _)
HandleLines(st, lines) ==
  IF lines = <<>> THEN st
  ELSE HandleLines(HandleLine(st, Head(lines)), Tail(lines))

\* ChunkResult with the last piece dropped instead of kept in the buffer.
ChunkResultDropsRest(st, buf, pending, value) ==
  LET dec == TextDecode(pending, value)
      lines == SplitLines(buf \o dec.text)
  IN [st |-> HandleLines(st, Front(lines)),
      buffer |-> <<>>,
      pending |-> dec.pending]

\* ChunkResult with the whole text kept in the buffer, the handled lines too.
ChunkResultKeepsAll(st, buf, pending, value) ==
  LET dec == TextDecode(pending, value)
      lines == SplitLines(buf \o dec.text)
  IN [st |-> HandleLines(st, Front(lines)),
      buffer |-> buf \o dec.text,
      pending |-> dec.pending]

\* One turn of the read loop on a chunk: decode, append to the buffer, split,
\* keep the last piece, handle the others.
ChunkResult(st, buf, pending, value) ==
  LET dec == TextDecode(pending, value)
      lines == SplitLines(buf \o dec.text)
  IN [st |-> HandleLines(st, Front(lines)),
      buffer |-> Last(lines),
      pending |-> dec.pending]

\* The loop's state in the variables.
CurrentStream ==
  StreamState(assistantMessage, messageId, messages, currentStreamingMessage,
              dispatched)

\* sendMessage up to the fetch: the user message is appended, the loading flag
\* set, the streaming text cleared.
SendMessage ==
  /\ cpc = "idle"
  /\ \E input \in Inputs :
       /\ ~IsBlank(input)
       /\ ~isLoading
       /\ messages' = Append(messages, Message("user", input, "now"))
  /\ isLoading' = TRUE
  /\ currentStreamingMessage' = <<>>
  /\ cpc' = "fetching"
  /\ nsends' = nsends + 1
  /\ streamBase' = Len(messages) + 1
  /\ UNCHANGED <<assistantMessage, messageId, buffer, wire, received,
                 dispatched, decoderPending, nrecords, cuts, serverVars>>

\* fetch resolves with response.ok and one of the response bodies: the reader,
\* the decoder and the loop's variables are set up.
FetchResolves(bodies) ==
  /\ cpc = "fetching"
  /\ wire' \in bodies
  /\ cuts' = {}
  /\ assistantMessage' = <<>>
  /\ messageId' = "null"
  /\ buffer' = <<>>
  /\ decoderPending' = <<>>
  /\ received' = <<>>
  /\ dispatched' = <<>>
  /\ cpc' = "reading"
  /\ UNCHANGED <<messages, isLoading, currentStreamingMessage, nrecords,
                 nsends, streamBase, serverVars>>

\* CatchError with the text accumulated so far kept as a message of its own.
CatchErrorCommitsPartial ==
  /\ messages' = Append(Append(messages,
                    Message("assistant", assistantMessage, "now")),
                    Message("assistant", FailureText, "now"))
  /\ isLoading' = FALSE
  /\ cpc' = "idle"

\* CatchError without the finally block: the loading flag stays set.
CatchErrorKeepsLoading ==
  /\ messages' = Append(messages, Message("assistant", FailureText, "now"))
  /\ isLoading' = isLoading
  /\ cpc' = "idle"

\* catch and finally: the failure message is appended, the loading flag reset.
CatchError ==
  /\ messages' = Append(messages, Message("assistant", FailureText, "now"))
  /\ isLoading' = FALSE
  /\ cpc' = "idle"

\* fetch rejects, or resolves with a status that is not ok.
FetchFails ==
  /\ cpc = "fetching"
  /\ CatchError
  /\ UNCHANGED <<currentStreamingMessage, assistantMessage, messageId, buffer,
                 wire, received, dispatched, decoderPending, nrecords, nsends,
                 streamBase, cuts, serverVars>>

\* reader.read() resolves with a chunk.
ReadChunk(value) ==
  /\ cpc = "reading"
  /\ \E res \in {ChunkResult(CurrentStream, buffer, decoderPending, value)} :
       /\ assistantMessage' = res.st.assistantMessage
       /\ messageId' = res.st.messageId
       /\ messages' = res.st.messages
       /\ currentStreamingMessage' = res.st.currentStreamingMessage
       /\ dispatched' = res.st.dispatched
       /\ buffer' = res.buffer
       /\ decoderPending' = res.pending
  /\ received' = received \o value
  /\ UNCHANGED <<isLoading, cpc, nsends, streamBase, serverVars>>

\* ReadDone with the text left in the buffer handled as one more line.
ReadDoneFlushes ==
  /\ cpc = "reading"
  /\ wire = <<>>
  /\ \E st \in {HandleLine(CurrentStream, buffer)} :
       /\ assistantMessage' = st.assistantMessage
       /\ messageId' = st.messageId
       /\ messages' = st.messages
       /\ currentStreamingMessage' = st.currentStreamingMessage
       /\ dispatched' = st.dispatched
  /\ isLoading' = FALSE
  /\ cpc' = "idle"
  /\ UNCHANGED <<buffer, wire, received, decoderPending, nrecords,
                 nsends, streamBase, cuts, serverVars>>

\* reader.read() resolves with done: the loop ends, finally resets the flag.
ReadDone ==
  /\ cpc = "reading"
  /\ wire = <<>>
  /\ isLoading' = FALSE
  /\ cpc' = "idle"
  /\ UNCHANGED <<messages, currentStreamingMessage, assistantMessage, messageId,
                 buffer, wire, received, dispatched, decoderPending, nrecords,
                 nsends, streamBase, cuts, serverVars>>

\* reader.read() rejects: the transport failed in the middle of the stream.
ReadRejects ==
  /\ cpc = "reading"
  /\ CatchError
  /\ UNCHANGED <<currentStreamingMessage, assistantMessage, messageId, buffer,
                 wire, received, dispatched, decoderPending, nrecords, nsends,
                 streamBase, cuts, serverVars>>

\* ------------------------------------------ client: record by record
\* The events a stream may carry, each flushed as one chunk: a message m1 with
\* the deltas "a " and "b ", a content and an end under the id m2 that no start
\* introduces, and a run error.
ClientEvents ==
  { TextMessageStartEvent("m1"),
    TextMessageContentEvent("m1", <<"a", " ">>),
    TextMessageContentEvent("m1", <<"b", " ">>),
    TextMessageContentEvent("m2", <<"c", " ">>),
    TextMessageEndEvent("m1"),
    TextMessageEndEvent("m2"),
    RunErrorEvent(<<"boom">>) }

\* The bytes of a text: the character U+E9 is the two bytes C3 A9.
RECURSIVE Utf8(_)
Utf8(t) ==
  IF t = <<>> THEN <<>>
  ELSE (IF Head(t) = "U+E9" THEN <<"C3", "A9">> ELSE <<Head(t)>>) \o Utf8(Tail(t))

\* The read loop takes a chunk that holds exactly one encoded event.
ReadRecord ==
  /\ nrecords < MaxRecords
  /\ \E ev \in ClientEvents : ReadChunk(Utf8(EncodeEvent(ev)))
  /\ nrecords' = nrecords + 1
  /\ UNCHANGED <<wire, cuts>>

\* The first message the user sends.
FirstSend == nsends = 0 /\ SendMessage

ClientNext ==
  \/ FirstSend
  \/ FetchResolves({<<>>})
  \/ FetchFails
  \/ ReadRecord
  \/ ReadDone
  \/ ReadRejects

ClientSpec == Init /\ [][ClientNext]_vars

\* ------------------------------------------ client: several sends
\* The events of the streams of a session: a delta, the end of a message, and
\* a run error.
SessionEvents ==
  { TextMessageContentEvent("m1", <<"a", " ">>),
    TextMessageEndEvent("m1"),
    RunErrorEvent(<<"boom">>) }

\* The user sends one more message.
NextSend == nsends < MaxSends /\ SendMessage

\* The read loop takes a chunk that holds one encoded event of the session.
SessionRead ==
  /\ nrecords < MaxRecords
  /\ \E ev \in SessionEvents : ReadChunk(Utf8(EncodeEvent(ev)))
  /\ nrecords' = nrecords + 1
  /\ UNCHANGED <<wire, cuts>>

\* What ends a send: the fetch fails, the stream is closed, a read rejects.
SendEnds == FetchFails \/ ReadDone \/ ReadRejects

SessionNext ==
  \/ NextSend
  \/ FetchResolves({<<>>})
  \/ FetchFails
  \/ SessionRead
  \/ ReadDone
  \/ ReadRejects

SessionSpec == Init /\ [][SessionNext]_vars

\* Every await of a send settles and no stream goes on for ever: a send that
\* is under way comes to one of its ends.
FairSessionSpec == SessionSpec /\ WF_vars(SendEnds)

\* ------------------------------------------ client: piece by piece
\* The records of a response body: three events (one with a two-byte
\* character in its delta), a prefixed line whose JSON is cut short, and a
\* comment line without the prefix.
WireRecords ==
  { Utf8(EncodeEvent(TextMessageStartEvent("m1"))),
    Utf8(EncodeEvent(TextMessageContentEvent("m1", <<"U+E9", " ">>))),
    Utf8(EncodeEvent(TextMessageEndEvent("m1"))),
    Prefix \o <<"{", "TEXT_MESSAGE_END", "m1", "\n">>,
    <<":", "ping", "\n">> }

\* What may follow the last terminated record: nothing, or a whole event that
\* no newline ends.
WireTails == { <<>>, Prefix \o <<"{", "TEXT_MESSAGE_END", "m1", "}">> }

RECURSIVE WireBodies(_)
\* The concatenations of at most n records.
WireBodies(n) ==
  IF n = 0 THEN { <<>> }
  ELSE WireBodies(n - 1) \cup { w \o rec : w \in WireBodies(n - 1), rec \in WireRecords }

Wires == { w \o t : w \in WireBodies(MaxWireRecords), t \in WireTails }

RECURSIVE LineOffset(_, _)
\* How many atoms of text[1..p] follow its last newline.
LineOffset(text, p) ==
  IF p = 0 \/ text[p] = "\n" THEN 0 ELSE 1 + LineOffset(text, p - 1)

\* The kinds of place a chunk boundary after text[p] falls on, p < Len(text).
CutKinds(text, p) ==
  LET k == LineOffset(text, p) IN
  (IF text[p] = "\n" /\ text[p + 1] = "\n" THEN {"terminator"} ELSE {})
  \cup (IF k \in 1..(PrefixLen - 1) /\ SubSeq(text, p - k + 1, p + 1) = SubSeq(Prefix, 1, k + 1)
        THEN {"prefix"} ELSE {})
  \cup (IF k > PrefixLen /\ text[p + 1] # "\n" THEN {"record"} ELSE {})
  \cup (IF text[p] = "C3" /\ text[p + 1] = "A9" THEN {"character"} ELSE {})

\* The read loop takes the next n bytes of the response body as a chunk.
ReadPiece ==
  /\ wire # <<>>
  /\ \E n \in 1..Len(wire) :
       /\ ReadChunk(SubSeq(wire, 1, n))
       /\ wire' = SubSeq(wire, n + 1, Len(wire))
       /\ cuts' = IF n < Len(wire)
                  THEN cuts \cup CutKinds(received \o wire, Len(received) + n)
                  ELSE cuts
  /\ UNCHANGED nrecords

DecoderNext ==
  \/ FirstSend
  \/ FetchResolves(Wires)
  \/ ReadPiece
  \/ ReadDone

DecoderSpec == Init /\ [][DecoderNext]_vars

\* -------------------------------------------- client and server together
\* The body sendMessage posts: thread_id 'default', run_id run-<now>, and the
\* whole message list with the new user message, each as {id, role, content}.
ClientBody ==
  Body("default", "run-now",
       [i \in DOMAIN messages |-> Msg(messages[i].role, messages[i].content)])

RECURSIVE EncodeAll(_)
\* The records of the events a run has yielded, as the response body's bytes.
EncodeAll(evs) ==
  IF evs = <<>> THEN <<>>
  ELSE Utf8(EncodeEvent(Head(evs))) \o EncodeAll(Tail(evs))

\* The events the run has yielded that the client has not yet read.
Unread == SubSeq(out["A"], nrecords + 1, Len(out["A"]))

\* The request of the client reaches agent_endpoint.
RequestArrives ==
  /\ cpc = "fetching"
  /\ AgentEndpoint("A", {ClientBody})

\* fetch resolves once the endpoint has returned its StreamingResponse.
ResponseArrives ==
  /\ pc["A"] \notin {"idle", "rejected"}
  /\ FetchResolves({<<>>})

\* The read loop takes a chunk: each yield of the generator is flushed as a
\* chunk of its own, and two that follow closely may arrive as one.
ReadAvailable ==
  /\ \E k \in {1, 2} :
       /\ k <= Len(Unread)
       /\ ReadChunk(EncodeAll(SubSeq(Unread, 1, k)))
       /\ nrecords' = nrecords + k
  /\ UNCHANGED <<wire, cuts>>

\* The generator has ended and everything it wrote has been read: the stream
\* closes.
StreamCloses ==
  /\ pc["A"] = "done"
  /\ Unread = <<>>
  /\ ReadDone

EndToEndNext ==
  \/ FirstSend
  \/ RequestArrives
  \/ ResponseArrives
  \/ RunStep("A")
  \/ StepRaises("A")
  \/ ReadAvailable
  \/ StreamCloses
  \/ ReadRejects

EndToEndSpec == Init /\ [][EndToEndNext]_vars

\* ============================================================ the decoder
\* The state of the loop when a stream is opened.
FreshStream == StreamState(<<>>, "null", <<>>, <<>>, <<>>)

\* The events of a text that is read as one chunk.
DecodedAtOnce(bytes) == ChunkResult(FreshStream, <<>>, <<>>, bytes).st.dispatched

\* C5: however the bytes of the response body are cut into chunks, the events
\* dispatched so far are those of the bytes received so far read as one chunk,
\* in the same order.
C5_DecodingIgnoresChunkBoundaries == dispatched = DecodedAtOnce(received)

\* A body of two events has been read to its end in chunks cut inside the
\* prefix, inside a record, between the two newlines of a terminator and
\* inside a two-byte character.
C5_Witness ==
  /\ cpc = "idle"
  /\ nsends = 1
  /\ Len(dispatched) = 2
  /\ cuts = {"prefix", "record", "terminator", "character"}

\* ======================================================== the accumulator
IsContent(ev) == ev.type = "TEXT_MESSAGE_CONTENT"

\* evs is TextMessageStart(m), TextMessageContent(m, _)*, TextMessageEnd(m).
IsWholeMessage(evs) ==
  /\ Len(evs) >= 2
  /\ evs[1].type = "TEXT_MESSAGE_START"
  /\ Last(evs).type = "TEXT_MESSAGE_END"
  /\ Last(evs).messageId = evs[1].messageId
  /\ \A i \in 2..(Len(evs) - 1) :
       IsContent(evs[i]) /\ evs[i].messageId = evs[1].messageId

\* The deltas of the content events of evs, concatenated in order.
DeltasOf(evs) ==
  Concat([i \in 1..Len(evs) |-> IF IsContent(evs[i]) THEN evs[i].delta ELSE <<>>])

RECURSIVE OpenId(_)
\* The id of the message that is open after evs: that of the last
\* TextMessageStart no TextMessageEnd has followed, else "none".
OpenId(evs) ==
  IF evs = <<>> THEN "none"
  ELSE IF Last(evs).type = "TEXT_MESSAGE_START" THEN Last(evs).messageId
       ELSE IF Last(evs).type = "TEXT_MESSAGE_END" THEN "none"
            ELSE OpenId(Front(evs))

\* C7: a RunError that arrives after TextMessageStart and one or more
\* TextMessageContent, before TextMessageEnd, appends exactly one assistant
\* message "Error: <message>", no message with the partial content, and leaves
\* no streaming text surfaced.
C7_RunErrorWhileStreaming ==
  ( /\ cpc = "reading"
    /\ Len(dispatched) >= 3
    /\ dispatched[1].type = "TEXT_MESSAGE_START"
    /\ \A i \in 2..(Len(dispatched) - 1) :
         IsContent(dispatched[i]) /\ dispatched[i].messageId = dispatched[1].messageId
    /\ Last(dispatched).type = "RUN_ERROR" )
  => /\ Len(messages) = streamBase + 1
     /\ Last(messages) =
          Message("assistant", <<"Error:", " ">> \o Last(dispatched).message, "now")
     /\ currentStreamingMessage = <<>>

\* C8: a TextMessageContent whose messageId is not that of the open message
\* (none is open when no TextMessageStart came before) changes neither the
\* accumulated text, nor the streaming text, nor the message list.
C8_UnmatchedContentIgnored ==
  [][ ( /\ Len(dispatched') = Len(dispatched) + 1
        /\ IsContent(Last(dispatched'))
        /\ Last(dispatched').messageId # OpenId(dispatched) )
      => /\ assistantMessage' = assistantMessage
         /\ currentStreamingMessage' = currentStreamingMessage
         /\ messages' = messages ]_vars

\* C9: after TextMessageStart(m), TextMessageContent(m, d1) ...
\* TextMessageContent(m, dn), TextMessageEnd(m) on a newly opened stream, the
\* message list holds exactly one more message, an assistant message whose
\* content is d1 ... dn concatenated in order, and no streaming text is
\* surfaced.
C9_WholeMessageRoundTrip ==
  (cpc = "reading" /\ IsWholeMessage(dispatched))
  => /\ Len(messages) = streamBase + 1
     /\ Last(messages).role = "assistant"
     /\ Last(messages).content = DeltasOf(dispatched)
     /\ currentStreamingMessage = <<>>

\* The deltas "a " and "b " of one message have been put together.
C9_Witness ==
  /\ cpc = "reading"
  /\ IsWholeMessage(dispatched)
  /\ Len(dispatched) = 4
  /\ Last(messages).content = <<"a", " ", "b", " ">>

\* C10: when a stream carries two whole messages one after the other, the
\* content of the second finalized message is the concatenation of the deltas
\* that came after the second TextMessageStart alone.
C10_StartResetsAccumulation ==
  \A k \in 2..(Len(dispatched) - 2) :
    ( /\ cpc = "reading"
      /\ IsWholeMessage(SubSeq(dispatched, 1, k))
      /\ IsWholeMessage(SubSeq(dispatched, k + 1, Len(dispatched))) )
    => Last(messages).content =
         DeltasOf(SubSeq(dispatched, k + 1, Len(dispatched)))

\* ---------------------------------------------------------------- C11
\* The text d occurs in the text t as a run of consecutive atoms.
Occurs(d, t) ==
  \E i \in 1..(Len(t) - Len(d) + 1) : SubSeq(t, i, i + Len(d) - 1) = d

\* The first stream is over: closed by the server or ended by a failure.
StreamOver == cpc = "idle" /\ nsends = 1

HasEnd(evs) == \E i \in DOMAIN evs : evs[i].type = "TEXT_MESSAGE_END"

\* No delta the stream has delivered occurs in an entry of the message list.
NoDeltaInList ==
  \A i \in DOMAIN dispatched : \A j \in DOMAIN messages :
    IsContent(dispatched[i]) => ~Occurs(dispatched[i].delta, messages[j].content)

\* The step dispatches one event, a TextMessageStart or a TextMessageContent.
StartOrContentStep ==
  /\ Len(dispatched') = Len(dispatched) + 1
  /\ Front(dispatched') = dispatched
  /\ Last(dispatched').type \in {"TEXT_MESSAGE_START", "TEXT_MESSAGE_CONTENT"}

\* C11: the message list never holds a half-written assistant message: a step
\* that dispatches a TextMessageStart or a TextMessageContent leaves the list
\* as it is, and when a stream is over in which no TextMessageEnd arrived
\* (closed, ended by a RunError, or by a transport failure) no delta it
\* delivered occurs in any entry of the list.
C11_NoHalfWrittenMessage ==
  /\ [][StartOrContentStep => messages' = messages]_vars
  /\ [](StreamOver /\ ~HasEnd(dispatched) => NoDeltaInList)

\* A stream that delivered a start, a delta and a RunError, then failed.
C11_Witness ==
  /\ StreamOver
  /\ ~HasEnd(dispatched)
  /\ Len(dispatched) >= 3
  /\ assistantMessage # <<>>
  /\ HasRunError(dispatched)
  /\ Len(messages) = 3

\* ---------------------------------------------------------------- C12
\* The step is the catch of a failed read: the read loop ends with a message
\* added to the list.
TransportFailureStep ==
  /\ cpc = "reading"
  /\ cpc' = "idle"
  /\ Len(messages') > Len(messages)

\* C12: when the transport fails in the middle of a stream while streaming
\* text is shown, the client appends exactly one failure message with the
\* fixed text and no streaming text is left surfaced.
C12_TransportFailureDiscardsInFlight ==
  [][TransportFailureStep /\ currentStreamingMessage # <<>> =>
       /\ messages' = Append(messages, Message("assistant", FailureText, "now"))
       /\ currentStreamingMessage' = <<>>]_vars

\* ---------------------------------------------------------------- C13
\* The events the records of a response body encode.
WireEvents ==
  { TextMessageStartEvent("m1"),
    TextMessageContentEvent("m1", <<"U+E9", " ">>),
    TextMessageEndEvent("m1") }

\* The line of bytes is the prefix and the JSON of an event, as the server
\* writes them.
WellFormed(line) == \E ev \in WireEvents : line = Utf8(Prefix \o JsonOf(ev))

\* The records of the bytes that a newline ends.
CompleteRecords(bytes) == Front(SplitLines(bytes))

RECURSIVE Joined(_)
\* The lines, each with its newline, as one text.
Joined(lines) ==
  IF lines = <<>> THEN <<>>
  ELSE Append(Head(lines), "\n") \o Joined(Tail(lines))

\* The bytes received with every record that is not well formed left out.
WellFormedOnly(bytes) == Joined(SelectSeq(CompleteRecords(bytes), WellFormed))

\* The loop's state when the stream of this send was opened.
StreamOpened ==
  StreamState(<<>>, "null", SubSeq(messages, 1, streamBase), <<>>, <<>>)

\* C13: decode errors are local to the record: a record without the prefix
\* and a prefixed record whose JSON does not parse are dropped, so the events
\* dispatched, the message list and the accumulated text are those of the
\* same stream with these records left out; the well-formed records after
\* them are dispatched.
C13_BadRecordsAreSkipped ==
  CurrentStream =
    ChunkResult(StreamOpened, <<>>, <<>>, WellFormedOnly(received)).st

\* A stream whose first record is prefixed with JSON that does not parse and
\* whose second record, a TextMessageEnd, was dispatched after it.
C13_Witness ==
  /\ StreamOver
  /\ Len(CompleteRecords(received)) >= 2
  /\ StartsWithPrefix(CompleteRecords(received)[1])
  /\ ~WellFormed(CompleteRecords(received)[1])
  /\ Len(dispatched) = 1
  /\ Len(messages) = streamBase + 1

\* ---------------------------------------------------------------- C14
\* The step ends the read loop.
StreamEndStep == cpc = "reading" /\ cpc' = "idle"

HasFailureMessage ==
  \E i \in DOMAIN messages : messages[i].content = FailureText

\* C14: the text left in the buffer when the stream ends is dropped: the end
\* of the stream dispatches no event and changes neither the message list nor
\* the streaming text, and no failure message comes of it.
C14_LeftoverBufferDropped ==
  /\ [][StreamEndStep =>
         /\ dispatched' = dispatched
         /\ messages' = messages
         /\ currentStreamingMessage' = currentStreamingMessage]_vars
  /\ [](StreamOver => ~HasFailureMessage)

\* A stream that ended with a whole TextMessageEnd record, without its
\* newline, in the buffer: the start before it was dispatched, no message was
\* committed.
C14_Witness ==
  /\ StreamOver
  /\ StartsWithPrefix(buffer)
  /\ JsonParse(SubSeq(buffer, PrefixLen + 1, Len(buffer))).ok
  /\ Len(dispatched) >= 1
  /\ Len(messages) = streamBase

\* ---------------------------------------------------------------- C15
\* The run has got as far as calling the query processor.
QueryCalled(r) == pc[r] \notin {"idle", "rejected", "gen_start", "ensure", "connecting"}

\* The user-role entries of a message list, in order.
UserEntries(msgs) == SelectSeq(msgs, LAMBDA m : m.role = "user")

\* C15: the text handed to the query processor is the content of the last
\* user-role entry of the request's message list.
C15_QueryIsLastUserMessage ==
  \A r \in RUNS :
    QueryCalled(r) /\ UserEntries(body[r].messages) # <<>> =>
      /\ ~user_message[r].isNone
      /\ user_message[r].text = Last(UserEntries(body[r].messages)).content

\* ---------------------------------------------------------------- C16
\* C16: a request whose message list has no user-role entry is rejected with
\* an error response before a stream is opened: the run emits no event and
\* never reaches the call of the query processor.
C16_NoUserMessageRejected ==
  \A r \in RUNS :
    pc[r] # "idle" /\ UserEntries(body[r].messages) = <<>> =>
      /\ pc[r] = "rejected"
      /\ http[r].status >= 400
      /\ out[r] = <<>>
      /\ result[r] = NoResult

\* A request whose only message is of the assistant has been rejected.
C16_Witness ==
  /\ pc["A"] = "rejected"
  /\ body["A"].messages = << Msg("assistant", <<"x">>) >>
  /\ http["A"].status >= 400

\* ---------------------------------------------------------------- C17
\* What a result carries.
HasSummary(res) == res.isdict /\ res.summary.has
HasStructuredSummary(res) == HasSummary(res) /\ res.summary.val.kind = "dict"
HasNestedSummary(res) == HasStructuredSummary(res) /\ res.summary.val.summary.has
HasError(res) == res.isdict /\ res.error.has

\* The serialization of the whole result.
Serialized(res) == IF res.isdict THEN JsonDumps(res) ELSE StrOf(res)

\* The four rules in their order, a structured summary without a nested
\* summary taken by the flat-summary rule.
FallThroughText(res) ==
  CASE HasNestedSummary(res) -> StrOf(res.summary.val.summary.val)
    [] ~HasNestedSummary(res) /\ HasSummary(res) -> StrOf(res.summary.val)
    [] ~HasSummary(res) /\ HasError(res) -> <<"Error:", " ">> \o StrOf(res.error.val)
    [] OTHER -> Serialized(res)

\* The four rules in their order, a structured summary without a nested
\* summary giving the fixed text "No summary available".
DefaultedText(res) ==
  CASE HasNestedSummary(res) -> StrOf(res.summary.val.summary.val)
    [] HasStructuredSummary(res) /\ ~HasNestedSummary(res) ->
         <<"No", " ", "summary", " ", "available">>
    [] ~HasStructuredSummary(res) /\ HasSummary(res) -> StrOf(res.summary.val)
    [] ~HasSummary(res) /\ HasError(res) -> <<"Error:", " ">> \o StrOf(res.error.val)
    [] OTHER -> Serialized(res)

\* The query processor has returned to the run.
ResultBound(r) == result[r] # NoResult

\* C17 as stated: the response text follows the precedence nested summary,
\* flat summary coerced to text, "Error: <error>", serialization of the whole
\* result, and a structured summary without a nested summary falls through
\* to the flat-summary rule.
C17_PrecedenceFallsThrough ==
  \A r \in RUNS : ResultBound(r) => response_text[r] = FallThroughText(result[r])

\* C17 amended: the same precedence, but a structured summary without a
\* nested summary gives the text "No summary available", whatever else the
\* result carries.
C17_PrecedenceWithDefault ==
  \A r \in RUNS : ResultBound(r) => response_text[r] = DefaultedText(result[r])

\* A run whose result holds a structured summary without a nested summary,
\* and an error, has ended with the default text streamed.
C17_Witness ==
  /\ Succeeded("A")
  /\ HasStructuredSummary(result["A"])
  /\ ~HasNestedSummary(result["A"])
  /\ HasError(result["A"])
  /\ response_text["A"] = <<"No", " ", "summary", " ", "available">>

\* ---------------------------------------------------------------- C18
\* The places of a text where a token starts and where one ends: a token is a
\* maximal run of atoms that are not whitespace.
TokenStarts(t) ==
  {i \in 1..Len(t) : ~IsSpace(t[i]) /\ (i = 1 \/ IsSpace(t[i - 1]))}
TokenEnds(t) ==
  {i \in 1..Len(t) : ~IsSpace(t[i]) /\ (i = Len(t) \/ IsSpace(t[i + 1]))}

\* The n-th number of a set of numbers, counted from the smallest.
Nth(S, n) == CHOOSE x \in S : Cardinality({y \in S : y < x}) = n - 1

\* The n-th token of a text.
Token(t, n) == SubSeq(t, Nth(TokenStarts(t), n), Nth(TokenEnds(t), n))

\* The events of a run between its first two and its last two.
ContentsOf(evs) == SubSeq(evs, 3, Len(evs) - 2)

\* C18: a run that ends in success has emitted, between TextMessageStart and
\* TextMessageEnd, one TextMessageContent for each token of the response
\* text, the i-th with the i-th token and one space as its delta; a text
\* without tokens gives no content event, the start and the end are emitted
\* all the same; and no delta a run emits is empty.
C18_OneContentPerToken ==
  \A r \in RUNS :
    /\ \A i \in DOMAIN out[r] : IsContent(out[r][i]) => out[r][i].delta # <<>>
    /\ Succeeded(r) =>
         LET cs == ContentsOf(out[r])
             t == response_text[r]
         IN /\ out[r][2].type = "TEXT_MESSAGE_START"
            /\ out[r][Len(out[r]) - 1].type = "TEXT_MESSAGE_END"
            /\ Len(cs) = Cardinality(TokenStarts(t))
            /\ \A i \in DOMAIN cs :
                 /\ IsContent(cs[i])
                 /\ cs[i].delta = Append(Token(t, i), " ")

\* A run has ended in success on a text of two tokens with two spaces
\* between them.
C18_Witness ==
  /\ Succeeded("A")
  /\ response_text["A"] = <<"n", " ", " ", "m">>
  /\ Len(ContentsOf(out["A"])) = 2

\* ---------------------------------------------------------------- C19
RECURSIVE TokensJoined(_, _)
\* The tokens of a text from the n-th on, each followed by one space.
TokensJoined(t, n) ==
  IF n > Cardinality(TokenStarts(t)) THEN <<>>
  ELSE Append(Token(t, n), " ") \o TokensJoined(t, n + 1)

\* The stream of the first send was closed by the server at the end of a
\* successful run, and no transport failure ended it.
ClosedAfterSuccess == StreamOver /\ Succeeded("A") /\ ~HasFailureMessage

\* C19: end to end, for a request with one user message and a run that ends
\* in success on a text with the tokens t1..tn: once the stream is closed the
\* message list is the list before the send, then the user message, then one
\* assistant message with the content t1+" "+...+tn+" ", and no streaming
\* text is in flight.
C19_EndToEndRoundTrip ==
  ClosedAfterSuccess =>
    /\ Len(messages) = streamBase + 1
    /\ messages[streamBase].role = "user"
    /\ messages[streamBase].content = user_message["A"].text
    /\ messages[streamBase + 1].role = "assistant"
    /\ messages[streamBase + 1].content = TokensJoined(response_text["A"], 1)
    /\ currentStreamingMessage = <<>>

\* The stream of a run on the text "a b" was closed: the list holds the user
\* message and the assistant message "a b ".
C19_Witness ==
  /\ ClosedAfterSuccess
  /\ response_text["A"] = <<"a", " ", "b">>
  /\ Len(messages) = 2
  /\ messages[2].content = <<"a", " ", "b", " ">>

\* ---------------------------------------------------------------- C20
\* The run is at a place of the generator where it yields its next event.
AtYield(r) == pc[r] \in {"gen_start", "msg_start", "content", "msg_end", "finish"}

\* The run waits for a call it awaits: the connection or the query.
Suspended(r) == pc[r] \in {"connecting", "run_query"}

\* The step in which the run yields its next event.
YieldStep(r) ==
  \/ EmitRunStarted(r)
  \/ EmitTextMessageStart(r)
  \/ EmitTextMessageContent(r)
  \/ EmitTextMessageEnd(r)
  \/ EmitRunFinished(r)

\* Every event the run has emitted is made of the run's own request, text and
\* message id: what the run emits when it is served alone.
OwnSequence(r) ==
  \A i \in DOMAIN out[r] :
    LET ev == out[r][i] IN
    CASE ev.type \in {"RUN_STARTED", "RUN_FINISHED"} ->
           /\ ev.threadId = Get(body[r].thread_id, "default")
           /\ body[r].run_id # Absent => ev.runId = body[r].run_id
      [] ev.type \in {"TEXT_MESSAGE_START", "TEXT_MESSAGE_END"} ->
           ev.messageId = message_id[r]
      [] ev.type = "TEXT_MESSAGE_CONTENT" ->
           /\ ev.messageId = message_id[r]
           /\ ev.delta = Append(Token(response_text[r], i - 2), " ")
      [] OTHER -> ev.type = "RUN_ERROR"

\* The step leaves alone every run whose events it does not extend.
OneRunPerStep ==
  \A r \in RUNS :
    out'[r] # out[r] =>
      /\ Front(out'[r]) = out[r]
      /\ \A o \in RUNS \ {r} :
           /\ out'[o] = out[o]
           /\ pc'[o] = pc[o]
           /\ words'[o] = words[o]
           /\ message_id'[o] = message_id[o]
           /\ response_text'[o] = response_text[o]

\* C20: concurrent runs are independent: in every interleaving of the runs a
\* step that extends the events of one run leaves the other run as it is,
\* the events of each run are those of its own request, text and message id,
\* and a run that is about to yield an event can do so whatever the other
\* run is waiting for.
C20_RunsAreIndependent ==
  /\ [][OneRunPerStep]_vars
  /\ [](\A r \in RUNS : OwnSequence(r))
  /\ [](\A r \in RUNS : AtYield(r) => ENABLED YieldStep(r))

\* Run A waits for the query processor while run B, started after it, has
\* emitted a content event and is about to emit the next.
C20_Witness ==
  /\ pc["A"] = "run_query"
  /\ pc["B"] = "content"
  /\ Len(out["A"]) = 1
  /\ Len(out["B"]) = 3
  /\ body["A"] # body["B"]

\* ---------------------------------------------------------------- C21
\* C21: a TextMessageEnd whose messageId is not that of the open message, or
\* that arrives when no message is open, appends no message to the list.
C21_UnmatchedEndAppendsNothing ==
  [][ ( /\ Len(dispatched') = Len(dispatched) + 1
        /\ Last(dispatched').type = "TEXT_MESSAGE_END"
        /\ Last(dispatched').messageId # OpenId(dispatched) )
      => messages' = messages ]_vars

\* ---------------------------------------------------------------- C22
\* C22: a failure before RunStarted is emitted writes no event to the stream:
\* a RunError is never the first event of a run.
C22_RunErrorNeverFirst ==
  \A r \in RUNS : out[r] # <<>> => out[r][1].type # "RUN_ERROR"

\* ---------------------------------------------------------------- C23
\* C23: a request rejected because no user message was found is answered
\* with the status 400 and the detail "No user message found", not with 500.
C23_MissingUserMessageIs400 ==
  \A r \in RUNS :
    pc[r] = "rejected" =>
      /\ http[r].status = 400
      /\ http[r].detail = <<"No", " ", "user", " ", "message", " ", "found">>

\* ---------------------------------------------------------------- C24
\* C24: the client holds at most one open stream and always returns to idle:
\* the loading flag is set exactly while a send is under way, so sendMessage
\* returns at once while a stream is open; every end of a send (stream closed,
\* also after a RunError, fetch failed or status not ok, read rejected) leaves
\* the flag reset; a set flag is reset in the end; and with the flag reset the
\* next send can start.
C24_OneStreamAndBackToIdle ==
  /\ [](isLoading <=> cpc # "idle")
  /\ [][cpc # "idle" /\ cpc' = "idle" => ~isLoading']_vars
  /\ (isLoading ~> ~isLoading)
  /\ [](~isLoading /\ nsends < MaxSends => ENABLED NextSend)

\* The second send has begun after a first one whose stream brought a
\* RunError and was ended by a failed read.
C24_Witness ==
  /\ nsends = 2
  /\ isLoading
  /\ cpc = "reading"
  /\ Len(messages) = 4
  /\ messages[2].content = <<"Error:", " ", "boom">>
  /\ messages[3].content = FailureText

\* ---------------------------------------------------------------- C25
\* The step is a connect() that raises, for a run or for /health.
ConnectRaisesStep ==
  \/ \E r \in RUNS : pc[r] = "connecting" /\ pc'[r] = "done"
  \/ hpc = "connecting" /\ hpc' = "unhealthy"

\* The step is a call of ensure_connected reading the flag, for a run or for
\* /health.
EnsureCallStep ==
  \/ \E r \in RUNS : pc[r] = "ensure" /\ pc'[r] # "ensure"
  \/ hpc = "idle" /\ hpc' # "idle"

\* C25: when the calls of ensure_connected do not overlap: a connect() that
\* raises leaves the flag false; a call that finds the flag false starts
\* connect() and one that finds it true does not; once the flag is true it
\* stays true and connect() is not started again.  So every connect() started
\* has raised or is the one that succeeded or is the one under way.
C25_SequentialConnectRetry ==
  /\ [][ConnectRaisesStep => ~connected /\ ~connected']_vars
  /\ [][EnsureCallStep =>
          connectCalls' = connectCalls + (IF connected THEN 0 ELSE 1)]_vars
  /\ [][connected => connected' /\ connectCalls' = connectCalls]_vars
  /\ [](connectCalls =
          ConnectFailures + NumConnecting + (IF connected THEN 1 ELSE 0))

\* A first connect() raised and ended a run, a second one succeeded, and a
\* third caller went on without starting connect().
C25_Witness ==
  /\ ConnectFailures = 1
  /\ connectCalls = 2
  /\ connected
  /\ hpc = "healthy"
  /\ \E r \in RUNS : Succeeded(r)

\* ---------------------------------------------------------------- C26
\* The text of the chunks decoded so far.
DecodedSoFar == DecodeBytes(received, 1, <<>>).text

\* The text split off so far: the decoded text up to its last newline.
SplitOff == SubSeq(DecodedSoFar, 1, Len(DecodedSoFar) - Len(buffer))

\* The record of text is the prefix and the JSON of an event.
WellFormedText(line) == \E ev \in WireEvents : line = Prefix \o JsonOf(ev)

\* The event a well-formed record encodes.
EventOfRecord(line) == CHOOSE ev \in WireEvents : line = Prefix \o JsonOf(ev)

\* The parsed event p is the event ev.
SameEvent(p, ev) ==
  /\ p.type = ev.type
  /\ p.messageId = ev.messageId
  /\ IsContent(ev) => p.delta = ev.delta

\* C26: after every chunk the buffer holds no newline; the text split off,
\* which is empty or ends in a newline, followed by the buffer is the text
\* decoded so far; and the events dispatched are those of the well-formed
\* records split off, one for each, in the order of the wire, the other
\* records being dropped.
C26_BufferInvariant ==
  /\ \A i \in DOMAIN buffer : buffer[i] # "\n"
  /\ Len(buffer) <= Len(DecodedSoFar)
  /\ SplitOff \o buffer = DecodedSoFar
  /\ SplitOff # <<>> => Last(SplitOff) = "\n"
  /\ LET good == SelectSeq(CompleteRecords(SplitOff), WellFormedText)
     IN /\ Len(dispatched) = Len(good)
        /\ \A i \in DOMAIN good : SameEvent(dispatched[i], EventOfRecord(good[i]))

\* In the middle of a stream read in pieces: a record that does not parse
\* has been dropped, an event dispatched, and the buffer holds the beginning
\* of the next record.
C26_Witness ==
  /\ cpc = "reading"
  /\ buffer # <<>>
  /\ Len(dispatched) >= 1
  /\ cuts # {}
  /\ \E i \in DOMAIN CompleteRecords(SplitOff) :
       /\ StartsWithPrefix(CompleteRecords(SplitOff)[i])
       /\ ~WellFormedText(CompleteRecords(SplitOff)[i])

====
